---- MODULE Spec2Model ----
(***************************************************************************)
(* Model of src/app.py: the upload handler process_and_upload_excel, the   *)
(* per-sheet validation pipeline process_sheets_until_empty, the period    *)
(* index kept in S3 as '<Periodo>/indice.csv' and the classification of a  *)
(* submission as "Normal" or "Ajuste".                                     *)
(*                                                                         *)
(* Representation.                                                         *)
(*  - A date text 'dd-mm-aaaa' is the tuple <<dd, mm, aaaa>>; a datetime   *)
(*    is a record [year, month, day, seg] (seg: seconds since midnight);   *)
(*    the aware datetime.now(tz) also has a micro field.                   *)
(*  - A spreadsheet cell is a tagged value [t, v]: t = "nan" (absent),     *)
(*    "int" (numeric cell) or "str" (text cell); v is what str() prints.   *)
(*  - A sheet is the pair of its B2 cell and of the first other check that *)
(*    it does not meet (defecto), in the order in which the code performs  *)
(*    the checks; "ninguno" is a sheet that meets them all.                *)
(*  - An object of the bucket that holds a CSV table is the sequence of    *)
(*    its rows, each cell being the text written by to_csv.                *)
(***************************************************************************)
EXTENDS Integers, Sequences, FiniteSets, TLC

\* Bounds of the model.
MaxSheets == 2      \* sheets of one workbook

\* datetime(upload_datetime.year, upload_datetime.month, 21)
DiaAjuste == 21

Procs == {1, 2}
\* One browser session: its uploads are handled one at a time.
Sesiones == {1}

(***************************************************************************)
(* Input domains.                                                          *)
(***************************************************************************)
\* Submitter names as they appear in the file name.  "NA" is one of the
\* texts that pandas.read_csv reads back as a missing value.
Lideres == {"ANA", "BETO", "NA"}

\* Texts matching ^\d{11}$ among the cell texts of the model.
OnceDigitos == {"20111111111", "27222222222"}

NaN == [t |-> "nan", v |-> ""]
CeldaStr(s) == [t |-> "str", v |-> s]
CeldaInt(s) == [t |-> "int", v |-> s]

\* Values of the B2 cell: the same CUIL as a numeric and as a text cell,
\* another CUIL, a text that is not 11 digits, and an absent cell.
CeldasB2 ==
  { CeldaInt("20111111111"), CeldaStr("20111111111"),
    CeldaStr("27222222222"), CeldaStr("2011"), NaN }

Defectos ==
  { "ninguno", "hoja_vacia", "celda_B_vacia", "celda_K_invalida",
    "campo_falsy", "sin_filas", "faltan_columnas", "objetivo_invalido",
    "ponderacion_cero", "ponderacion_suma", "fecha_nula", "fecha_formato",
    "fecha_futura" }

Hojas == [B2 : CeldasB2, defecto : Defectos]

\* Declared dates (first segment of the file name) and processing instants
\* of the upload pipeline.
Fechas == { <<3, 3, 2025>> }
Relojes ==
  { [year |-> 2025, month |-> 3, day |-> 30, seg |-> 36000, micro |-> 0],
    [year |-> 2025, month |-> 4, day |-> 22, seg |-> 36000, micro |-> 0] }

\* Declared dates and processing instants of the classification runs: every
\* month of two years against every month of 2025, around the 21st.
FechasT == { <<15, m, y>> : m \in 1..12, y \in {2024, 2025} }
RelojesT ==
  [year : {2025}, month : 1..12, day : {20, 21, 22},
   seg : {0, 1, 43200}, micro : {0, 500000}]

\* File names: those of the required format, and one that is not.
SinNombre == [formato |-> FALSE, fecha |-> <<0, 0, 0>>, lider |-> ""]
Nombres == [formato : {TRUE}, fecha : Fechas, lider : Lideres] \cup {SinNombre}
Botones == {"ninguno", "guardar", "cancelar"}

(***************************************************************************)
(* Dates.                                                                  *)
(***************************************************************************)
\* datetime.strptime(fecha, '%d-%m-%Y')
strptime_fecha(fecha) ==
  [year |-> fecha[3], month |-> fecha[2], day |-> fecha[1], seg |-> 0]

\* now.strftime('%d/%m/%Y_%H:%M:%S'): the text keeps neither the
\* microseconds nor the time zone.
strftime_upload(now) == <<now.day, now.month, now.year, now.seg>>

\* datetime.strptime(upload_datetime, '%d/%m/%Y_%H:%M:%S')
strptime_upload(txt) ==
  [year |-> txt[3], month |-> txt[2], day |-> txt[1], seg |-> txt[4]]

\* a > b on naive datetimes
DatetimeGT(a, b) ==
  \/ a.year > b.year
  \/ a.year = b.year /\ a.month > b.month
  \/ a.year = b.year /\ a.month = b.month /\ a.day > b.day
  \/ a.year = b.year /\ a.month = b.month /\ a.day = b.day /\ a.seg > b.seg

normalize_fecha_to_first_day(fecha_str) ==
  LET dt == strptime_fecha(fecha_str)
      primero == [dt EXCEPT !.day = 1]
  IN  <<primero.day, primero.month, primero.year>>

determine_tablero_type_mismo_anio(fecha, upload_datetime) ==
  LET ajuste_fecha ==
        [year |-> upload_datetime.year, month |-> upload_datetime.month,
         day |-> DiaAjuste, seg |-> 0]
      file_date == strptime_fecha(fecha)
      now == upload_datetime
  IN  IF file_date.month = now.month /\ file_date.year = now.year
        THEN "Normal"
      ELSE IF file_date.month = now.month - 1 /\ file_date.year = now.year
        THEN IF DatetimeGT(upload_datetime, ajuste_fecha)
               THEN "Ajuste" ELSE "Normal"
      ELSE IF file_date.month = now.month - 2 /\ file_date.year = now.year
        THEN "Ajuste"
      ELSE "Normal"

determine_tablero_type(fecha, upload_datetime) ==
  LET ajuste_fecha ==
        [year |-> upload_datetime.year, month |-> upload_datetime.month,
         day |-> DiaAjuste, seg |-> 0]
      file_date == strptime_fecha(fecha)
      now == upload_datetime
      prev_month == IF now.month > 1 THEN now.month - 1 ELSE 12
      prev_year == IF now.month > 1 THEN now.year ELSE now.year - 1
      two_months_ago ==
        IF now.month > 2 THEN now.month - 2 ELSE 12 + (now.month - 2)
      two_months_ago_year == IF now.month > 2 THEN now.year ELSE now.year - 1
  IN  IF file_date.month = now.month /\ file_date.year = now.year
        THEN "Normal"
      ELSE IF file_date.month = prev_month /\ file_date.year = prev_year
        THEN IF DatetimeGT(upload_datetime, ajuste_fecha)
               THEN "Ajuste" ELSE "Normal"
      ELSE IF file_date.month = two_months_ago
              /\ file_date.year = two_months_ago_year
        THEN "Ajuste"
      ELSE "Normal"

\* process_and_upload_excel, lines 617-618 and 655-656: the instant is
\* printed, parsed back and classified.
tablero_type_de(fecha_archivo, now) ==
  determine_tablero_type(fecha_archivo,
                         strptime_upload(strftime_upload(now)))

Periodos == { normalize_fecha_to_first_day(f) : f \in Fechas \cup FechasT }

VARIABLES
  indice,     \* per period: the object '<Periodo>/indice.csv' of the bucket
  salidas,    \* keys of the normalized CSV files present in the bucket
  s3_ok,      \* whether the blob store answers (FALSE: any call raises)
  reloj,      \* the instant at which the last upload started
  run         \* per session: the state of its current (or last) handler run

vars == <<indice, salidas, s3_ok, reloj, run>>

(***************************************************************************)
(* The period index: '<Periodo>/indice.csv'.                               *)
(***************************************************************************)
\* Default na_values of pandas.read_csv (leader names cannot hold '/').
NaValues ==
  { "", "#NA", "-NaN", "-nan", "<NA>", "NA", "NULL", "NaN", "None", "nan",
    "null" }

SinObjeto == [existe |-> FALSE, filas |-> <<>>]

\* pd.read_csv(..., dtype={"CUIL": str}) on one row: CUIL stays a text, the
\* Lider text is read as missing when it is one of the na_values.
read_csv_fila(f) ==
  [Periodo |-> f.Periodo, CUIL |-> f.CUIL,
   Lider |-> IF f.Lider \in NaValues THEN NaN ELSE CeldaStr(f.Lider)]

\* df.to_csv on one row: a missing value is written as the empty text.
to_csv_fila(f) ==
  [Periodo |-> f.Periodo, CUIL |-> f.CUIL,
   Lider |-> IF f.Lider.t = "nan" THEN "" ELSE f.Lider.v]

\* The data frame read from an object of the bucket; a missing object
\* (NoSuchKey) gives the empty frame.
leer_indice(obj) ==
  IF obj.existe
    THEN [i \in 1..Len(obj.filas) |-> read_csv_fila(obj.filas[i])]
    ELSE <<>>

_load_period_index(periodo_str) == leer_indice(indice[periodo_str])

\* The object written by _save_period_index(df, periodo_str).
_save_period_index(df) ==
  [existe |-> TRUE, filas |-> [i \in 1..Len(df) |-> to_csv_fila(df[i])]]

\* existing_leader: None (here NaN) when the Lider value is missing, else
\* str() of it.
existing_leader(fila) ==
  IF fila.Lider.t = "nan" THEN NaN ELSE CeldaStr(fila.Lider.v)

\* idx_df.loc[idx_df["CUIL"] == c] and .iloc[0]: the first row of c.
PrimeraFila(df, c) ==
  df[CHOOSE i \in 1..Len(df) :
       /\ df[i].CUIL = c
       /\ \A j \in 1..(i - 1) : df[j].CUIL # c]

NuncaEnIndice(df, c) == FALSE

\* mask.any() of line 583 and "not row.empty" of line 552.
EnIndice(df, c) == \E i \in 1..Len(df) : df[i].CUIL = c

\* The loop of check_for_duplicates over cuils_str, lines 550-556.
RECURSIVE conflicts_de(_, _, _)
conflicts_de(idx_df, cuils, leader_name) ==
  IF cuils = <<>> THEN <<>>
  ELSE LET c == Head(cuils)
           resto == conflicts_de(idx_df, Tail(cuils), leader_name)
       IN  IF EnIndice(idx_df, c)
             THEN LET lider == existing_leader(PrimeraFila(idx_df, c))
                  IN  IF lider.t = "str" /\ lider.v # ""
                         /\ lider.v # leader_name
                        THEN <<(<<c, lider.v>>)>> \o resto
                        ELSE resto
             ELSE resto

\* check_for_duplicates: any exception (the store failing while the index is
\* loaded) is caught and answered (False, []).
check_for_duplicates(cuils, fecha_normalizada, leader_name) ==
  IF ~s3_ok
    THEN [is_duplicate |-> FALSE, conflicts |-> <<>>]
    ELSE LET periodo == normalize_fecha_to_first_day(fecha_normalizada)
             idx_df == _load_period_index(periodo)
             conflicts == conflicts_de(idx_df, cuils, leader_name)
         IN  IF idx_df = <<>>
               THEN [is_duplicate |-> FALSE, conflicts |-> <<>>]
               ELSE [is_duplicate |-> Len(conflicts) > 0,
                     conflicts |-> conflicts]

\* The rows _update_period_index_with_upload appends, lines 574-591.
RECURSIVE to_add(_, _, _, _)
to_add(df, periodo_str, cuils, leader_name) ==
  IF cuils = <<>> THEN <<>>
  ELSE LET c == Head(cuils)
           resto == to_add(df, periodo_str, Tail(cuils), leader_name)
       IN  IF EnIndice(df, c)
             THEN resto
             ELSE <<[Periodo |-> periodo_str, CUIL |-> c,
                     Lider |-> CeldaStr(leader_name)]>> \o resto

solo_filas_nuevas(df, periodo_str, cuils, leader_name) ==
  to_add(df, periodo_str, cuils, leader_name)

\* pd.concat([df, pd.DataFrame(to_add)]) of lines 593-594.
indice_actualizado(df, periodo_str, cuils, leader_name) ==
  df \o to_add(df, periodo_str, cuils, leader_name)


(***************************************************************************)
(* File name and sheet gates.                                              *)
(***************************************************************************)
\* re.match(r"^\d{2}-\d{2}-\d{4}\+.+\+.+\.xlsx$", filename)
validate_filename(filename) == filename.formato

\* filename.split('+')[-1].replace('.xlsx', '')
extract_leader_name(filename) == filename.lider

\* original_filename.split('+')[0]
fecha_archivo_de(filename) == filename.fecha

verify_sheet_structure(h) == h.defecto # "hoja_vacia"

\* B1..B4 present, str(B2) of 11 digits, K1..K5 numeric or absent.
validate_form_cells(h) ==
  /\ h.defecto # "celda_B_vacia"
  /\ h.B2.t # "nan"
  /\ h.B2.v \in OnceDigitos
  /\ h.defecto # "celda_K_invalida"

\* "if cargo and cuil and segmento and area_influencia" on the values of
\* extract_data_from_form: a present cell holding 0 or False is falsy.
campos_usables(h) == h.defecto # "campo_falsy"

\* clean_and_restructure_until_empty returns a non-empty frame.
clean_and_restructure_until_empty(h) ==
  h.defecto \notin { "sin_filas", "faltan_columnas", "objetivo_invalido",
                     "ponderacion_cero", "ponderacion_suma" }

validate_update_dates(h) ==
  h.defecto \notin { "fecha_nula", "fecha_formato", "fecha_futura" }

\* len(cuils) != len(set(cuils)) over the CUIL values of the sheets' frames:
\* a numeric cell and a text cell are different Python values.
validate_unique_cuils(dataframes) ==
  Cardinality({ dataframes[i] : i \in 1..Len(dataframes) }) = Len(dataframes)

sin_unique(cells) == [i \in 1..Len(cells) |-> cells[i].v]

\* cleaned_df['CUIL'].astype(str).unique().tolist()
RECURSIVE unique_str(_)
unique_str(cells) ==
  IF cells = <<>> THEN <<>>
  ELSE LET antes == unique_str(SubSeq(cells, 1, Len(cells) - 1))
           c == cells[Len(cells)].v
       IN  IF \E i \in 1..Len(antes) : antes[i] = c
             THEN antes ELSE Append(antes, c)

(***************************************************************************)
(* One run of process_and_upload_excel.                                    *)
(***************************************************************************)
SinPrevia ==
  [hay |-> FALSE, aceptada |-> FALSE, cleaned |-> <<>>, conflictos |-> <<>>]

RunVacio ==
  [pc |-> "inicio",
   archivo |-> SinNombre,
   now |-> [year |-> 0, month |-> 0, day |-> 0, seg |-> 0, micro |-> 0],
                             \* datetime.now(argentina_tz) of line 617
   nhojas |-> 0,             \* sheets iterated
   omitidas |-> 0,           \* sheets left out by the falsy-field test
   fallo_hoja |-> FALSE,     \* a sheet did not pass one of its gates
   cleaned |-> <<>>,         \* the CUIL value of each frame concatenated
   cuils |-> <<>>,           \* unique_cuils
   verificado |-> FALSE,     \* check_for_duplicates has answered
   conflictos |-> <<>>,
   carga_fallida |-> FALSE,  \* history: the store raised inside
                             \* check_for_duplicates
   tipo |-> "",
   boton |-> "",             \* what st.button answered in this run
   logs |-> 0,               \* calls of log_error_to_s3
   subido |-> FALSE,         \* upload_file_to_s3 returned True
   snap |-> <<>>,            \* df of _update_period_index_with_upload
   guardado |-> FALSE,       \* _save_period_index returned
   resultado |-> "",
   idx0 |-> SinObjeto,       \* history: the period's index when the run began
   previa |-> SinPrevia]     \* history: the run handled just before, while
                             \* this one submits the same workbook again

periodo_de(r) == normalize_fecha_to_first_day(fecha_archivo_de(r.archivo))

\* History: what a run that starts with file name nombre remembers of the
\* run r that ended just before it.  It is kept only when r submitted, under
\* the same name, a workbook whose sheets all passed their gates, and only
\* while the new run is fed the same sheets.
Resumen(r, nombre) ==
  IF /\ r.pc = "fin" /\ r.verificado /\ r.archivo = nombre
     /\ r.omitidas = 0 /\ Len(r.cleaned) = r.nhojas
    THEN [hay |-> TRUE, aceptada |-> (r.resultado = "aceptado"),
          cleaned |-> r.cleaned, conflictos |-> r.conflictos]
    ELSE SinPrevia

misma_hasta_aqui(r) ==
  IF /\ r.previa.hay
     /\ ~ (/\ r.pc = "hojas" /\ r.omitidas = 0
           /\ Len(r.cleaned) = r.nhojas
           /\ Len(r.cleaned) <= Len(r.previa.cleaned)
           /\ r.cleaned = SubSeq(r.previa.cleaned, 1, Len(r.cleaned)))
    THEN [r EXCEPT !.previa = SinPrevia]
    ELSE r

misma_al_final(r) ==
  IF r.previa.hay /\ r.cleaned # r.previa.cleaned
    THEN [r EXCEPT !.previa = SinPrevia]
    ELSE r

termina_sin_log(r, motivo, n) ==
  [r EXCEPT !.pc = "fin", !.resultado = motivo, !.snap = <<>>]

\* log_error_to_s3(...) n times, then return: the frame of
\* _update_period_index_with_upload is gone.
termina(r, motivo, n) ==
  [r EXCEPT !.pc = "fin", !.resultado = motivo, !.logs = @ + n,
            !.snap = <<>>]

hoja_rechazada_y_sigue(r) ==
  [r EXCEPT !.fallo_hoja = TRUE, !.nhojas = @ + 1]

\* A gate of process_sheets_until_empty fails: the gate logs, the pipeline
\* returns (DataFrame(), False) and lines 621-625 log again and return.
hoja_rechazada(r) ==
  [termina(r, "estructura", 2) EXCEPT !.fallo_hoja = TRUE, !.cleaned = <<>>]

\* The sheet passed every gate: lines 445-446.
hoja_aceptada(r, h) ==
  [r EXCEPT !.nhojas = @ + 1, !.cleaned = Append(@, h.B2)]

\* Lines 439-446 are not executed and the loop goes on with the next sheet.
hoja_omitida(r) == [r EXCEPT !.nhojas = @ + 1, !.omitidas = @ + 1]

\* One iteration of the loop of process_sheets_until_empty, lines 432-446.
procesa_hoja(r, h) ==
  IF ~verify_sheet_structure(h) THEN hoja_rechazada(r)
  ELSE IF ~validate_form_cells(h) THEN hoja_rechazada(r)
  ELSE IF ~campos_usables(h) THEN hoja_omitida(r)
  ELSE IF ~clean_and_restructure_until_empty(h) THEN hoja_rechazada(r)
  ELSE IF ~validate_update_dates(h) THEN hoja_rechazada(r)
  ELSE hoja_aceptada(r, h)

\* After the loop: lines 448-454, then lines 621-637.
fin_hojas(r) ==
  IF ~validate_unique_cuils(r.cleaned)
    THEN [termina(r, "cuils_repetidos", 2) EXCEPT !.cleaned = <<>>]
  ELSE IF r.cleaned = <<>>
    THEN termina(r, "sin_datos", 1)
  ELSE [r EXCEPT !.pc = "duplicados", !.cuils = unique_str(r.cleaned)]

\* Lines 639-668 up to the buttons.
tras_duplicados(r, res) ==
  IF res.is_duplicate
    THEN [termina(r, "conflicto", 1) EXCEPT
            !.verificado = TRUE, !.conflictos = res.conflicts]
    ELSE LET tipo == tablero_type_de(fecha_archivo_de(r.archivo), r.now)
         IN  [r EXCEPT !.verificado = TRUE, !.conflictos = res.conflicts,
                       !.tipo = tipo,
                       !.pc = IF tipo = "Ajuste" THEN "confirmar"
                              ELSE "subir"]

tras_botones_sin_pregunta(r, boton) ==
  [r EXCEPT !.pc = "subir", !.boton = boton]

\* Lines 660-668: st.button("Guardar"), st.button("Cancelar").
tras_botones(r, boton) ==
  IF boton = "cancelar"
    THEN [termina(r, "cancelado", 0) EXCEPT !.boton = boton]
  ELSE IF boton # "guardar"
    THEN [termina(r, "sin_confirmar", 0) EXCEPT !.boton = boton]
  ELSE [r EXCEPT !.pc = "subir", !.boton = boton]

\* Key of the normalized CSV: '<periodo>/<instant>_<name>.csv'.
\* The instant is left out: a key stands for every normalized file of that
\* upload name in the folder of the period.
csv_filename(r) == [periodo |-> periodo_de(r), nombre |-> r.archivo]

(***************************************************************************)
(* Actions.                                                                *)
(***************************************************************************)
SinReloj == [year |-> 0, month |-> 0, day |-> 0, seg |-> 0, micro |-> 0]

Init ==
  /\ indice = [P \in Periodos |-> SinObjeto]
  /\ salidas = {}
  /\ s3_ok = TRUE
  /\ reloj = SinReloj
  /\ run = [p \in Procs |-> RunVacio]

\* main(): a file is uploaded and process_and_upload_excel starts, lines
\* 601-618.
Begin(p, nombre, ahora) ==
  /\ run[p].pc \in {"inicio", "fin"}
  /\ ~DatetimeGT(strptime_upload(strftime_upload(reloj)),
                 strptime_upload(strftime_upload(ahora)))
  /\ reloj' = ahora
  /\ LET r == [RunVacio EXCEPT !.archivo = nombre, !.now = ahora]
     IN  run' = [run EXCEPT ![p] =
                   IF validate_filename(nombre)
                     THEN [r EXCEPT !.pc = "hojas",
                                    !.previa = Resumen(run[p], nombre),
                                    !.idx0 = indice[periodo_de(r)]]
                     ELSE termina(r, "nombre_invalido", 1)]
  /\ UNCHANGED <<indice, salidas, s3_ok>>

Hoja(p, h) ==
  /\ run[p].pc = "hojas"
  /\ run[p].nhojas < MaxSheets
  /\ run' = [run EXCEPT ![p] = misma_hasta_aqui(procesa_hoja(run[p], h))]
  /\ UNCHANGED <<indice, salidas, s3_ok, reloj>>

FinHojas(p) ==
  /\ run[p].pc = "hojas"
  /\ run[p].nhojas >= 1
  /\ run' = [run EXCEPT ![p] = misma_al_final(fin_hojas(run[p]))]
  /\ UNCHANGED <<indice, salidas, s3_ok, reloj>>

Duplicados(p) ==
  /\ run[p].pc = "duplicados"
  /\ run' = [run EXCEPT ![p] =
               [tras_duplicados(run[p],
                  check_for_duplicates(run[p].cuils, periodo_de(run[p]),
                                       extract_leader_name(run[p].archivo)))
                EXCEPT !.carga_fallida = ~s3_ok]]
  /\ UNCHANGED <<indice, salidas, s3_ok, reloj>>

Confirmar(p, boton) ==
  /\ run[p].pc = "confirmar"
  /\ run' = [run EXCEPT ![p] = tras_botones(run[p], boton)]
  /\ UNCHANGED <<indice, salidas, s3_ok, reloj>>

\* upload_file_to_s3, lines 674-681: an exception of the store is caught
\* and answered False, and the handler returns without touching the index.
Subir(p) ==
  /\ run[p].pc = "subir"
  /\ IF s3_ok
       THEN /\ salidas' = salidas \cup {csv_filename(run[p])}
            /\ run' = [run EXCEPT ![p].subido = TRUE,
                                  ![p].pc = "indice_load"]
       ELSE /\ salidas' = salidas
            /\ run' = [run EXCEPT ![p] = termina(run[p], "subida_fallida", 0)]
  /\ UNCHANGED <<indice, s3_ok, reloj>>

\* _update_period_index_with_upload, line 571; an exception is caught at
\* line 597 and only shown.
IndiceLoad(p) ==
  /\ run[p].pc = "indice_load"
  /\ run' = [run EXCEPT ![p] =
               IF s3_ok
                 THEN [run[p] EXCEPT
                         !.snap = _load_period_index(periodo_de(run[p])),
                         !.pc = "indice_save"]
                 ELSE termina(run[p], "indice_fallido", 0)]
  /\ UNCHANGED <<indice, salidas, s3_ok, reloj>>

\* _update_period_index_with_upload, lines 572-596.
IndiceSave(p) ==
  /\ run[p].pc = "indice_save"
  /\ LET r == run[p]
         lider == extract_leader_name(r.archivo)
         df == indice_actualizado(r.snap, periodo_de(r), r.cuils, lider)
     IN  IF s3_ok
           THEN /\ indice' = [indice EXCEPT ![periodo_de(r)] =
                                _save_period_index(df)]
                /\ run' = [run EXCEPT ![p] =
                             [termina(r, "aceptado", 0) EXCEPT
                                !.guardado = TRUE]]
           ELSE /\ run' = [run EXCEPT ![p] = termina(r, "indice_fallido", 0)]
                /\ UNCHANGED indice
  /\ UNCHANGED <<salidas, s3_ok, reloj>>

\* The blob store stops or resumes answering.
S3Cambia ==
  /\ s3_ok' = ~s3_ok
  /\ UNCHANGED <<indice, salidas, reloj, run>>

\* Uploads handled one at a time over a blob store that always answers.
Next ==
  \E p \in Sesiones :
    \/ \E nombre \in Nombres, ahora \in Relojes : Begin(p, nombre, ahora)
    \/ \E h \in Hojas : Hoja(p, h)
    \/ FinHojas(p)
    \/ Duplicados(p)
    \/ \E b \in Botones : Confirmar(p, b)
    \/ Subir(p)
    \/ IndiceLoad(p)
    \/ IndiceSave(p)

Spec == Init /\ [][Next]_vars

\* The same, over a blob store that may fail at any moment.
NextFallas == Next \/ S3Cambia

SpecFallas == Init /\ [][NextFallas]_vars


(***************************************************************************)
(* Classification runs: one upload of a one-sheet workbook over an empty   *)
(* bucket, for every declared month and processing instant of FechasT and  *)
(* RelojesT, taken from the conflict check to the end of the handler.      *)
(***************************************************************************)
InitTablero ==
  /\ indice = [P \in Periodos |-> SinObjeto]
  /\ salidas = {}
  /\ s3_ok = TRUE
  /\ \E f \in FechasT, n \in RelojesT :
       /\ reloj = n
       /\ run = [p \in Procs |->
                IF p \in Sesiones
                  THEN [RunVacio EXCEPT
                          !.pc = "duplicados",
                          !.archivo = [formato |-> TRUE, fecha |-> f,
                                       lider |-> "ANA"],
                          !.now = n, !.nhojas = 1,
                          !.cleaned = <<CeldaStr("20111111111")>>,
                          !.cuils = <<"20111111111">>]
                  ELSE RunVacio]

NextTablero ==
  \E p \in Sesiones :
    \/ Duplicados(p)
    \/ \E b \in Botones : Confirmar(p, b)
    \/ Subir(p)
    \/ IndiceLoad(p)
    \/ IndiceSave(p)

SpecTablero == InitTablero /\ [][NextTablero]_vars

(***************************************************************************)
(* Concurrent uploads: two sessions of the application, each with a        *)
(* workbook for the same period that process_sheets_until_empty has        *)
(* accepted, run the rest of the handler with their calls to the store     *)
(* interleaved: the index load of the conflict check, the write of the     *)
(* normalized file, the second index load and the index save.              *)
(***************************************************************************)
\* process_sheets_until_empty over the sheets of a workbook.
RECURSIVE tras_hojas(_, _)
tras_hojas(r, hojas) ==
  IF hojas = <<>> \/ r.pc # "hojas"
    THEN IF r.pc = "hojas" THEN fin_hojas(r) ELSE r
    ELSE tras_hojas(procesa_hoja(r, Head(hojas)), Tail(hojas))

HojaValida(celda) == [B2 |-> celda, defecto |-> "ninguno"]

\* Workbooks of the concurrent uploads: one identity, two identities, and
\* one identity in a numeric and in a text cell.
LibrosC ==
  { <<HojaValida(CeldaStr("20111111111"))>>,
    <<HojaValida(CeldaStr("20111111111")),
      HojaValida(CeldaStr("27222222222"))>>,
    <<HojaValida(CeldaInt("20111111111")),
      HojaValida(CeldaStr("20111111111"))>> }

\* The index of the period when the two uploads arrive: none yet, or the
\* one left by an upload of ANA with the second identity.
IndicesC ==
  { SinObjeto,
    _save_period_index(
      indice_actualizado(<<>>, normalize_fecha_to_first_day(<<3, 3, 2025>>),
                         <<"27222222222">>, "ANA")) }

InitConcurrente ==
  /\ salidas = {}
  /\ s3_ok = TRUE
  /\ \E idx \in IndicesC, ahora \in Relojes,
        nombres \in [Procs -> Nombres \ {SinNombre}],
        libros \in [Procs -> LibrosC] :
       /\ reloj = ahora
       /\ indice = [P \in Periodos |->
                      IF \E p \in Procs :
                           P = normalize_fecha_to_first_day(
                                 fecha_archivo_de(nombres[p]))
                        THEN idx ELSE SinObjeto]
       /\ run = [p \in Procs |->
                   tras_hojas([RunVacio EXCEPT !.pc = "hojas",
                                               !.archivo = nombres[p],
                                               !.now = ahora,
                                               !.idx0 = idx],
                              libros[p])]

NextConcurrente ==
  \E p \in Procs :
    \/ Duplicados(p)
    \/ \E b \in Botones : Confirmar(p, b)
    \/ Subir(p)
    \/ IndiceLoad(p)
    \/ IndiceSave(p)

SpecConcurrente == InitConcurrente /\ [][NextConcurrente]_vars

(***************************************************************************)
(* Properties.                                                             *)
(***************************************************************************)
Rango(seq) == { seq[i] : i \in 1..Len(seq) }

NombreValido(r) == r.pc # "inicio" /\ validate_filename(r.archivo)

\* The workbook of the run has been iterated to its end and every sheet
\* passed every gate, the cross-sheet gate included.
LibroValido(r) ==
  /\ NombreValido(r)
  /\ r.cuils # <<>>
  /\ r.omitidas = 0
  /\ Len(r.cleaned) = r.nhojas

\* process_sheets_until_empty has returned (final_data, True) in the run.
ExitoHojas(r) ==
  /\ r.pc \notin {"inicio", "hojas"}
  /\ r.resultado \notin {"nombre_invalido", "estructura", "cuils_repetidos"}

\* C1: with uploads handled one at a time, whatever the sequence of uploads
\* and submitters, the stored index of every period holds at most one row
\* per identity code.
C1_UnaFilaPorCuil ==
  \A P \in Periodos :
    \A i, j \in 1..Len(indice[P].filas) :
      indice[P].filas[i].CUIL = indice[P].filas[j].CUIL => i = j

\* C1 witness: an index with two identities of two different submitters,
\* left as it was by an accepted upload that submitted one of them again.
C1_Testigo ==
  \E P \in Periodos, p \in Procs :
    /\ Len(indice[P].filas) = 2
    /\ indice[P].filas[1].Lider # indice[P].filas[2].Lider
    /\ run[p].resultado = "aceptado"
    /\ periodo_de(run[p]) = P
    /\ run[p].idx0 = indice[P]

\* C2: no step removes a stored row (period, identity code, owner) from the
\* index of a period or changes its owner: every row stored before the step
\* is stored, with the same owner, after it.
C2_EntradasPermanecen ==
  [][\A P \in Periodos :
       Rango(indice[P].filas) \subseteq Rango(indice'[P].filas)]_vars

\* C3: an upload of a valid workbook by B that holds an identity X which the
\* index of the period records for another submitter A (A was accepted with
\* X) ends rejected with (X, A) in its conflict list, without a normalized
\* file and with the index of the period as it found it.
C3_RechazoPorConflicto ==
  \A p \in Procs :
    LET r == run[p]
    IN  \A f \in Rango(r.idx0.filas) :
          ( /\ r.pc = "fin"
            /\ LibroValido(r)
            /\ f.CUIL \in Rango(r.cuils)
            /\ f.Lider # ""
            /\ f.Lider # extract_leader_name(r.archivo) )
          => /\ r.resultado = "conflicto"
             /\ <<f.CUIL, f.Lider>> \in Rango(r.conflictos)
             /\ ~r.subido
             /\ indice[periodo_de(r)] = r.idx0

\* C4: when the upload just before was accepted, an upload that submits its
\* valid workbook again, under the same name, has an empty conflict list, as
\* that one had, and leaves in the index of the period the rows that one
\* left.
C4_Idempotencia ==
  \A p \in Procs :
    LET r == run[p]
    IN  (r.pc = "fin" /\ r.previa.hay /\ r.previa.aceptada)
        => /\ r.previa.conflictos = <<>>
           /\ r.conflictos = <<>>
           /\ Rango(indice[periodo_de(r)].filas) = Rango(r.idx0.filas)

\* The conflicts C5 describes for identities cuils, submitter lider and the
\* stored index object obj: the stored rows of those identities whose owner
\* is recorded and is not lider.
ConflictosEsperados(obj, cuils, lider) ==
  { <<f.CUIL, f.Lider>> :
      f \in { g \in Rango(obj.filas) :
                /\ g.CUIL \in Rango(cuils)
                /\ g.Lider # ""
                /\ g.Lider # lider } }

\* C5: the conflict list of check_for_duplicates holds, once each, exactly
\* the pairs (identity, recorded owner) of the submitted identities that the
\* index of the period records with an owner other than the submitter; it is
\* empty when the period has no index, and the upload is rejected for
\* conflict exactly when it is not empty.
C5_ListaDeConflictos ==
  \A p \in Procs :
    LET r == run[p]
        obj == indice[periodo_de(r)]
        esperados ==
          ConflictosEsperados(obj, r.cuils, extract_leader_name(r.archivo))
    IN  (NombreValido(r) /\ r.verificado /\ ~r.guardado)
        => /\ Rango(r.conflictos) = esperados
           /\ Len(r.conflictos) = Cardinality(esperados)
           /\ (~obj.existe => r.conflictos = <<>>)
           /\ (r.resultado = "conflicto") = (r.conflictos # <<>>)

\* C6: the normalized file of a run is written only after the file name
\* check, every sheet gate of every sheet, the cross-sheet gate and the
\* conflict check have passed, and the index is written only after the
\* normalized file was written.
C6_OrdenDeEscrituras ==
  \A p \in Procs :
    LET r == run[p]
    IN  /\ r.subido => /\ LibroValido(r)
                       /\ validate_unique_cuils(r.cleaned)
                       /\ r.verificado
                       /\ r.conflictos = <<>>
        /\ r.guardado => r.subido

\* C7: when a run has finished, either its normalized file is stored and
\* every identity of the workbook is in the index of the period, or no
\* normalized file was stored and the index of the period is as the run
\* found it; also when the store fails while the index is loaded or saved.
C7_SinCompromisoParcial ==
  \A p \in Procs :
    LET r == run[p]
    IN  (r.pc = "fin" /\ validate_filename(r.archivo))
        => \/ /\ r.subido
              /\ \A i \in 1..Len(r.cuils) :
                   \E f \in Rango(indice[periodo_de(r)].filas) :
                     f.CUIL = r.cuils[i]
           \/ /\ ~r.subido
              /\ indice[periodo_de(r)] = r.idx0

\* C8: once a sheet of the workbook has failed a gate, the run has ended
\* with the failure of process_sheets_until_empty, no normalized file was
\* stored and the index of the period is as the run found it, whatever the
\* sheets iterated before.
C8_HojaInvalidaRechazaTodo ==
  \A p \in Procs :
    LET r == run[p]
    IN  r.fallo_hoja
        => /\ r.pc = "fin"
           /\ r.resultado = "estructura"
           /\ ~r.subido
           /\ ~r.guardado
           /\ indice[periodo_de(r)] = r.idx0

\* C8 witness: a sheet failed a gate after an earlier sheet of the same
\* workbook had passed all of them.
C8_Testigo ==
  \E p \in Procs :
    /\ run[p].fallo_hoja
    /\ run[p].nhojas >= 1
    /\ run[p].omitidas = 0

\* C9: whenever process_sheets_until_empty returns success, every sheet of
\* the workbook passed the gate on the extracted header fields and gave its
\* rows to the output: none was skipped.
C9_SoloDosResultados ==
  \A p \in Procs :
    LET r == run[p]
    IN  ExitoHojas(r) => (r.omitidas = 0 /\ Len(r.cleaned) = r.nhojas)

\* The declared date of the run is in the calendar month just before the
\* month of its processing instant.
MesAnterior(r) ==
  LET f == fecha_archivo_de(r.archivo)
  IN  (r.now.year * 12 + r.now.month) - (f[3] * 12 + f[2]) = 1

\* C10: an upload declared for the month before the processing month is
\* classified Normal when processed on any day up to the 21st, at any time
\* of that day, and Ajuste when processed on the 22nd or later.
C10_LimiteDeAjuste ==
  \A p \in Procs :
    LET r == run[p]
    IN  (r.tipo # "" /\ MesAnterior(r))
        => r.tipo = (IF r.now.day <= DiaAjuste THEN "Normal" ELSE "Ajuste")

\* The number of calendar months from the declared month of the run to the
\* month of its processing instant.
MesesDeDiferencia(r) ==
  LET f == fecha_archivo_de(r.archivo)
  IN  (r.now.year * 12 + r.now.month) - (f[3] * 12 + f[2])

\* C11: a classified upload is Normal when its declared month is the
\* processing month, Ajuste when it is exactly two calendar months before
\* it, whatever the day and time of processing, and Normal when it is
\* neither the processing month nor one of the two months before it (older
\* or later), the year boundary included.
C11_OtrosMeses ==
  \A p \in Procs :
    LET r == run[p]
        d == MesesDeDiferencia(r)
    IN  r.tipo # ""
        => /\ (d = 0 => r.tipo = "Normal")
           /\ (d = 2 => r.tipo = "Ajuste")
           /\ (d \notin {0, 1, 2} => r.tipo = "Normal")

\* C11 witness: an upload declared for November 2024 and processed in
\* January 2025 has been classified Ajuste.
C11_Testigo ==
  \E p \in Procs :
    /\ run[p].tipo = "Ajuste"
    /\ run[p].now.year = 2025 /\ run[p].now.month = 1
    /\ fecha_archivo_de(run[p].archivo) = <<15, 11, 2024>>

\* C12: a step that leaves a run classified Ajuste in which the operator has
\* not chosen Guardar changes neither the normalized files nor any index;
\* a run classified Normal that has ended was accepted without a button
\* having been answered; a run classified Ajuste has stored something only
\* when Guardar was chosen.
C12_AjusteRequiereConfirmar ==
  [][\A p \in Sesiones :
       LET r == run'[p]
       IN  /\ (r.tipo = "Ajuste" /\ r.boton # "guardar")
                => (indice' = indice /\ salidas' = salidas
                    /\ ~r.subido /\ ~r.guardado)
           /\ (r.tipo = "Normal" /\ r.pc = "fin")
                => (r.resultado = "aceptado" /\ r.boton = "")]_vars

\* C12 witness: over an index that already holds entries, an Ajuste upload
\* has been cancelled by the operator.
C12_Testigo ==
  \E p \in Procs :
    /\ run[p].pc = "fin"
    /\ run[p].tipo = "Ajuste"
    /\ run[p].boton = "cancelar"
    /\ run[p].idx0.existe
    /\ indice[periodo_de(run[p])] = run[p].idx0

\* C13: when the store failed while check_for_duplicates loaded the index,
\* the run is not carried on as free of conflicts and stores no normalized
\* file.
C13_FalloDeCargaPropagado ==
  \A p \in Procs :
    LET r == run[p]
    IN  r.carga_fallida
        => /\ r.pc \notin {"confirmar", "subir", "indice_load", "indice_save"}
           /\ ~r.subido

\* The results of a run that are rejections for a validation reason.
RechazosDeValidacion ==
  {"nombre_invalido", "estructura", "cuils_repetidos", "sin_datos",
   "conflicto"}

\* C14: a run that ended rejected for a validation reason has called
\* log_error_to_s3 at least once, and a run that ended accepted has never
\* called it.
C14_RechazosRegistrados ==
  \A p \in Procs :
    LET r == run[p]
    IN  r.pc = "fin"
        => /\ (r.resultado \in RechazosDeValidacion => r.logs >= 1)
           /\ (r.resultado = "aceptado" => r.logs = 0)

\* C14 witness: a workbook rejected at a gate of its second sheet, logged by
\* the gate and by the handler.
C14_Testigo ==
  \E p \in Procs :
    /\ run[p].pc = "fin"
    /\ run[p].resultado = "estructura"
    /\ run[p].nhojas >= 1
    /\ run[p].logs = 2

\* C16: whenever process_sheets_until_empty returns success, the identity
\* codes of the sheets it kept are pairwise distinct.
C16_CuilsDistintosEntreHojas ==
  \A p \in Procs :
    LET r == run[p]
    IN  ExitoHojas(r)
        => \A i, j \in 1..Len(r.cleaned) :
             r.cleaned[i].v = r.cleaned[j].v => i = j

\* The rows of the stored index of period P that hold identity c.
FilasDe(P, c) ==
  { i \in 1..Len(indice[P].filas) : indice[P].filas[i].CUIL = c }

\* C15: when two concurrent uploads of different submitters that share an
\* identity have both been accepted, the normalized files of both are
\* stored and the index holds that identity in exactly one row: at most one
\* of the two submitters is recorded for it.
C15_CarreraDeIndice ==
  \A p, q \in Procs :
    LET a == run[p]
        b == run[q]
    IN  ( /\ p # q
          /\ a.resultado = "aceptado" /\ b.resultado = "aceptado"
          /\ extract_leader_name(a.archivo) # extract_leader_name(b.archivo) )
        => /\ csv_filename(a) \in salidas
           /\ csv_filename(b) \in salidas
           /\ \A c \in Rango(a.cuils) \cap Rango(b.cuils) :
                Cardinality(FilasDe(periodo_de(a), c)) = 1

\* C15 witness: ANA and BETO uploaded the same identity, absent from the
\* index, at the same time; both passed the conflict check with no
\* conflict, both normalized files are stored, both saved the index, and
\* the index holds the row of BETO only: the row ANA saved is lost.
C15_Testigo ==
  LET a == run[1]
      b == run[2]
  IN  /\ extract_leader_name(a.archivo) = "ANA"
      /\ extract_leader_name(b.archivo) = "BETO"
      /\ a.cuils = <<"20111111111">> /\ b.cuils = <<"20111111111">>
      /\ ~a.idx0.existe
      /\ a.verificado /\ b.verificado
      /\ a.conflictos = <<>> /\ b.conflictos = <<>>
      /\ a.guardado /\ b.guardado
      /\ {csv_filename(a), csv_filename(b)} \subseteq salidas
      /\ Len(indice[periodo_de(a)].filas) = 1
      /\ indice[periodo_de(a)].filas[1].Lider = "BETO"

\* C17: under every interleaving of two concurrent uploads, every stored
\* version of the index of every period holds each identity code in at most
\* one row.
C17_UnaFilaPorCuilConcurrente ==
  \A P \in Periodos :
    \A c \in Rango([i \in 1..Len(indice[P].filas) |-> indice[P].filas[i].CUIL]) :
      Cardinality(FilasDe(P, c)) <= 1

\* C17 witness: two concurrent uploads were accepted and saved the index,
\* and an identity of one of them is in no row of the index: the race lost
\* the entry.
C17_Testigo ==
  /\ \A p \in Procs : run[p].guardado
  /\ \E p \in Procs :
       \E c \in Rango(run[p].cuils) : FilasDe(periodo_de(run[p]), c) = {}

====
